---- MODULE Spec2Model ----
(***************************************************************************)
(* Model of 24088662_music_streaming_db.py: a sequential script that       *)
(* generates five related entity sets (Artists, Albums, Songs, Users,      *)
(* Plays), injects missing emails and duplicated names, recomputes         *)
(* total_listens from Plays, and writes everything to an SQLite store.     *)
(*                                                                         *)
(* Every record carries its keys and the fields some later statement       *)
(* reads or writes (user_name, email, total_listens, session_no).  The     *)
(* remaining attributes (country, genre, years, durations, scores, ...)    *)
(* are drawn and stored by the script and read by no statement of it;      *)
(* they are not carried.                                                   *)
(***************************************************************************)
EXTENDS Integers, Sequences, FiniteSets, TLC

\* ---- bounds: the entity counts of lines 36-40, scaled down ----
NUM_ARTISTS == 2
NUM_ALBUMS == 2
NUM_SONGS == 2
NUM_PLAYS == 2
\* the configured NUM_USERS ranges over 1..MaxUsers
MaxUsers == 2
\* the population floor stated beside NUM_USERS ("# >= 1000 required"), scaled
MinUsers == 2
\* the duplication rate of line 128 (0.02 in the source), in percent, scaled
DupPercent == 50

\* values the Faker generator can return
NAMES == {"n1", "n2"}
EMAILS == {"e1"}
\* Python's None
None == "<None>"
\* the NaN a left merge leaves where the right side has no row: a value that
\* is no count
NaN == -1

Sources == {"random", "numpy", "faker"}

\* variant: the setup without np.random.seed(SEED)
SeededSourcesNoNumpy == {"random", "faker"}
\* lines 29-31: random.seed(SEED), np.random.seed(SEED), Faker.seed(SEED)
SeededSources == {"random", "numpy", "faker"}

VARIABLES
    pc,               \* the statement the script executes next
    num_users,        \* the configured NUM_USERS
    k,                \* position in the running for loop (1-based)
    artists_df, albums_df, songs_df, users_df, plays_df,
    session_counter,  \* dict (user, song) -> sessions so far
    db,               \* the committed content of music_streaming.db
    ops,              \* the persistence operations invoked so far, in order
    committed,        \* the tables whose bulk insert this run committed
    fk_issues,        \* the rows PRAGMA foreign_key_check returned
    out,              \* the lines printed
    exit,             \* "running", "ok" (ran to the last line), "error" (uncaught exception)
    used,             \* the random sources a draw was taken from
    mode,             \* "off"; or "record" / "replay" for a second run with the same seed
    tape,             \* per source, the values it delivered (its stream for this seed)
    first             \* the entity sets of the first run, once it is over

data == <<artists_df, albums_df, songs_df, users_df, plays_df>>
gen == <<pc, num_users, k, artists_df, albums_df, songs_df, users_df, plays_df,
         session_counter, used, mode, tape, first>>
store == <<db, ops, committed, fk_issues, out, exit>>
vars == <<gen, store>>

\* ---- helpers ----
RECURSIVE SumSeq(_)
SumSeq(s) == IF s = <<>> THEN 0 ELSE Head(s) + SumSeq(Tail(s))

Column(df, col) == [i \in DOMAIN df |-> df[i][col]]
ToSet(s) == {s[i] : i \in DOMAIN s}

\* variant: range(n), keys counted from 0
Range0(n) == [i \in 1..n |-> i - 1]
\* range(1, n + 1) as the list of values the loop variable takes
Range1(n) == [i \in 1..n |-> i]

\* dict.get(key, default)
Get(d, key, default) == IF key \in DOMAIN d THEN d[key] ELSE default

\* ---- the random sources ----
\* What a source can deliver when asked for one of S.  A seeded source
\* repeats its stream in a second run with the same seed; an unseeded one
\* is free again.
Draws(src, S) ==
    IF mode = "replay" /\ src \in SeededSources THEN {Head(tape[src])} ELSE S

\* drawn: source -> the values this step took from it, in order
Consume(drawn) ==
    /\ used' = used \cup DOMAIN drawn
    /\ tape' = [s \in Sources |->
                  IF s \notin DOMAIN drawn THEN tape[s]
                  ELSE IF mode = "record" THEN Append(tape[s], drawn[s])
                  ELSE IF mode = "replay" THEN Tail(tape[s])
                  ELSE tape[s]]

NoStore == [tables |-> FALSE, Artists |-> {}, Albums |-> {}, Songs |-> {},
            Users |-> {}, Plays |-> {}]

InitCommon ==
    /\ pc = "artists"
    /\ num_users \in 1..MaxUsers
    /\ k = 1
    /\ artists_df = <<>> /\ albums_df = <<>> /\ songs_df = <<>>
    /\ users_df = <<>> /\ plays_df = <<>>
    /\ session_counter = <<>>
    /\ db = NoStore
    /\ ops = <<>>
    /\ committed = {}
    /\ fk_issues = {}
    /\ out = <<>>
    /\ exit = "running"
    /\ used = {}
    /\ tape = [s \in Sources |-> <<>>]
    /\ first = <<>>

Init == InitCommon /\ mode = "off"

\* ---- generation ----
\* lines 69-75: one iteration of the Artists loop
GenArtist ==
    /\ pc = "artists" /\ k <= NUM_ARTISTS
    /\ \E name \in Draws("faker", NAMES) :
        /\ artists_df' = Append(artists_df,
               [artist_id |-> Range1(NUM_ARTISTS)[k], artist_name |-> name])
        /\ Consume("faker" :> name)
    /\ k' = k + 1
    /\ UNCHANGED <<pc, num_users, albums_df, songs_df, users_df, plays_df,
                   session_counter, mode, first, store>>

\* line 76: the loop is over, artists_df = pd.DataFrame(artists)
FrameArtists ==
    /\ pc = "artists" /\ k > NUM_ARTISTS
    /\ pc' = "albums" /\ k' = 1
    /\ UNCHANGED <<num_users, data, session_counter, used, mode, tape, first, store>>

\* variant: a row position of artists_df instead of an artist_id
ArtistIndexChoices == 0..(Len(artists_df) - 1)
\* line 81: artists_df["artist_id"].tolist()
ArtistChoices == ToSet(Column(artists_df, "artist_id"))

\* lines 80-88: one iteration of the Albums loop
GenAlbum ==
    /\ pc = "albums" /\ k <= NUM_ALBUMS
    /\ \E artist \in Draws("random", ArtistChoices) :
        /\ albums_df' = Append(albums_df,
               [album_id |-> Range1(NUM_ALBUMS)[k], artist_id |-> artist])
        /\ Consume("random" :> artist)
    /\ k' = k + 1
    /\ UNCHANGED <<pc, num_users, artists_df, songs_df, users_df, plays_df,
                   session_counter, mode, first, store>>

\* line 89
FrameAlbums ==
    /\ pc = "albums" /\ k > NUM_ALBUMS
    /\ pc' = "songs" /\ k' = 1
    /\ UNCHANGED <<num_users, data, session_counter, used, mode, tape, first, store>>

\* lines 93-102: one iteration of the Songs loop; albums_df.sample(1) draws
\* a row of albums_df from numpy's global generator
GenSong ==
    /\ pc = "songs" /\ k <= NUM_SONGS
    /\ \E row \in Draws("numpy", DOMAIN albums_df) :
        /\ songs_df' = Append(songs_df,
               [song_id |-> Range1(NUM_SONGS)[k], album_id |-> albums_df[row].album_id])
        /\ Consume("numpy" :> row)
    /\ k' = k + 1
    /\ UNCHANGED <<pc, num_users, artists_df, albums_df, users_df, plays_df,
                   session_counter, mode, first, store>>

\* line 103
FrameSongs ==
    /\ pc = "songs" /\ k > NUM_SONGS
    /\ pc' = "users" /\ k' = 1
    /\ UNCHANGED <<num_users, data, session_counter, used, mode, tape, first, store>>

\* lines 107-122: one iteration of the Users loop
GenUser ==
    /\ pc = "users" /\ k <= num_users
    /\ \E name \in Draws("faker", NAMES) :
        /\ users_df' = Append(users_df,
               [user_id |-> Range1(num_users)[k], user_name |-> name,
                total_listens |-> 0])
        /\ Consume("faker" :> name)
    /\ k' = k + 1
    /\ UNCHANGED <<pc, num_users, artists_df, albums_df, songs_df, plays_df,
                   session_counter, mode, first, store>>

\* line 123
FrameUsers ==
    /\ pc = "users" /\ k > num_users
    /\ pc' = "email"
    /\ UNCHANGED <<num_users, k, data, session_counter, used, mode, tape, first, store>>

\* line 126: per user, in row order, random.random() > 0.05 decides whether
\* fake.email() is called; the name is not used
InjectEmail ==
    /\ pc = "email"
    /\ \E keep \in Draws("random", [DOMAIN users_df -> BOOLEAN]) :
        LET rows == {i \in DOMAIN users_df : keep[i]}
            slot(i) == Cardinality({j \in rows : j <= i})
        IN \E mails \in IF rows = {} THEN {<<>>}
                         ELSE Draws("faker", [1..Cardinality(rows) -> EMAILS]) :
            /\ users_df' = [i \in DOMAIN users_df |->
                   [user_id |-> users_df[i].user_id,
                    user_name |-> users_df[i].user_name,
                    total_listens |-> users_df[i].total_listens,
                    email |-> IF keep[i] THEN mails[slot(i)] ELSE None]]
            /\ Consume(IF rows = {} THEN "random" :> keep
                       ELSE ("random" :> keep) @@ ("faker" :> mails))
    /\ pc' = "dup" /\ k' = 1
    /\ UNCHANGED <<num_users, artists_df, albums_df, songs_df, plays_df,
                   session_counter, mode, first, store>>

\* int(len(users_df) * 0.02)
DupIterations == (Len(users_df) * DupPercent) \div 100

\* lines 128-133: one iteration of the duplication loop; .at[i, ...] addresses
\* the row labelled i of the 0-based index
InjectDuplicate ==
    /\ pc = "dup" /\ k <= DupIterations
    /\ \E d \in Draws("random",
                      (0..(Len(users_df) - 1)) \X (0..(Len(users_df) - 1)) \X BOOLEAN) :
        LET i == d[1] + 1
            j == d[2] + 1
            named == [users_df EXCEPT ![i].user_name = users_df[j].user_name]
        IN  /\ users_df' = IF d[3] THEN [named EXCEPT ![i].email = users_df[j].email]
                           ELSE named
            /\ Consume("random" :> d)
    /\ k' = k + 1
    /\ UNCHANGED <<pc, num_users, artists_df, albums_df, songs_df, plays_df,
                   session_counter, mode, first, store>>

\* line 138: the loop is over, session_counter = {}
EndDuplicates ==
    /\ pc = "dup" /\ k > DupIterations
    /\ pc' = "plays" /\ k' = 1
    /\ session_counter' = <<>>
    /\ UNCHANGED <<num_users, data, used, mode, tape, first, store>>

\* variant: a counter per user instead of per (user, song)
KeyUserOnly(user, song) == <<user, 0>>
\* line 142: key = (user, song)
Key(user, song) == <<user, song>>

\* lines 139-155: one iteration of the Plays loop
GenPlay ==
    /\ pc = "plays" /\ k <= NUM_PLAYS
    /\ \E d \in Draws("random", ToSet(Column(users_df, "user_id"))
                                 \X ToSet(Column(songs_df, "song_id"))) :
        LET user == d[1]
            song == d[2]
            key == Key(user, song)
            session_no == Get(session_counter, key, 0) + 1
        IN  /\ session_counter' = (key :> session_no) @@ session_counter
            /\ plays_df' = Append(plays_df,
                   [user_id |-> user, song_id |-> song, session_no |-> session_no])
            /\ Consume("random" :> d)
    /\ k' = k + 1
    /\ UNCHANGED <<pc, num_users, artists_df, albums_df, songs_df, users_df,
                   mode, first, store>>

\* line 156
FramePlays ==
    /\ pc = "plays" /\ k > NUM_PLAYS
    /\ pc' = "aggregate"
    /\ UNCHANGED <<num_users, k, data, session_counter, used, mode, tape, first, store>>

\* variant: groupby("user_id")["song_id"].nunique(), distinct songs per user
GroupByNUnique(plays) ==
    [u \in ToSet(Column(plays, "user_id")) |->
        Cardinality({plays[i].song_id : i \in {j \in DOMAIN plays : plays[j].user_id = u}})]
\* line 159: plays_df.groupby("user_id").size(): one row per user_id present
GroupBySize(plays) ==
    [u \in ToSet(Column(plays, "user_id")) |->
        Cardinality({i \in DOMAIN plays : plays[i].user_id = u})]

\* variant: the merged column without fillna(0)
KeepNaN(c) == c
\* line 161: .fillna(0).astype(int)
FillNa(c) == IF c = NaN THEN 0 ELSE c

\* lines 159-163: the left merge on user_id, fillna, overwrite, drop
Aggregate ==
    /\ pc = "aggregate"
    /\ LET counts == GroupBySize(plays_df)
           merged(u) == Get(counts, u, NaN)
       IN users_df' = [i \in DOMAIN users_df |->
              [users_df[i] EXCEPT !.total_listens = FillNa(merged(users_df[i].user_id))]]
    /\ pc' = "connect"
    /\ UNCHANGED <<num_users, k, artists_df, albums_df, songs_df, plays_df,
                   session_counter, used, mode, tape, first, store>>

Generation ==
    \/ GenArtist \/ FrameArtists
    \/ GenAlbum \/ FrameAlbums
    \/ GenSong \/ FrameSongs
    \/ GenUser \/ FrameUsers
    \/ InjectEmail
    \/ InjectDuplicate \/ EndDuplicates
    \/ GenPlay \/ FramePlays
    \/ Aggregate

\* ---- persistence ----
\* What music_streaming.db can hold when the script connects: no file yet; the
\* tables of an earlier run of the script; tables filled by another writer
\* with foreign keys off, one Albums row naming no Artist.
PreStores ==
    { NoStore,
      [NoStore EXCEPT !.tables = TRUE,
                      !.Artists = {[artist_id |-> 1, artist_name |-> "n1"]}],
      [NoStore EXCEPT !.tables = TRUE,
                      !.Albums = {[album_id |-> 99, artist_id |-> 99]}] }

\* lines 167-169: sqlite3.connect, PRAGMA foreign_keys = ON
Connect ==
    /\ pc = "connect"
    /\ \E s \in PreStores : db' = s
    /\ ops' = Append(ops, "connect")
    /\ pc' = "schema"
    /\ UNCHANGED <<num_users, k, data, session_counter, used, mode, tape, first,
                   committed, fk_issues, out, exit>>

\* lines 172-221: CREATE TABLE IF NOT EXISTS for the five tables, commit; an
\* sqlite3 error (the file cannot be written) ends the script
CreateSchema ==
    /\ pc = "schema"
    /\ ops' = Append(ops, "schema")
    /\ \E io_ok \in BOOLEAN :
        IF io_ok
        THEN /\ db' = [db EXCEPT !.tables = TRUE]
             /\ pc' = "insert" /\ k' = 1 /\ exit' = exit
        ELSE /\ db' = db
             /\ pc' = "crashed" /\ k' = k /\ exit' = "error"
    /\ UNCHANGED <<num_users, data, session_counter, used, mode, tape, first,
                   committed, fk_issues, out>>

\* variant: Songs written before the tables it references
InsertOrderSongsFirst == <<"Songs", "Artists", "Albums", "Users", "Plays">>
\* lines 224-228: the order of the five to_sql calls
InsertOrder == <<"Artists", "Albums", "Songs", "Users", "Plays">>

Frame(t) ==
    CASE t = "Artists" -> artists_df
      [] t = "Albums" -> albums_df
      [] t = "Songs" -> songs_df
      [] t = "Users" -> users_df
      [] t = "Plays" -> plays_df

\* the primary keys of lines 174, 180, 189, 198, 215
PrimaryKey(t, row) ==
    CASE t = "Artists" -> <<row.artist_id>>
      [] t = "Albums" -> <<row.album_id>>
      [] t = "Songs" -> <<row.song_id>>
      [] t = "Users" -> <<row.user_id>>
      [] t = "Plays" -> <<row.user_id, row.song_id, row.session_no>>

\* the FOREIGN KEY clauses of lines 185, 194, 216, 217, as
\* <<child table, child column, parent table, parent column>>
ForeignKeys ==
    { <<"Albums", "artist_id", "Artists", "artist_id">>,
      <<"Songs", "album_id", "Albums", "album_id">>,
      <<"Plays", "user_id", "Users", "user_id">>,
      <<"Plays", "song_id", "Songs", "song_id">> }

\* the rows of table t in store d whose parent row is missing
Orphans(d, t) ==
    {row \in d[t] : \E fk \in ForeignKeys :
        /\ fk[1] = t
        /\ \A parent \in d[fk[3]] : parent[fk[4]] # row[fk[2]]}

\* the NOT NULL and CHECK clauses of lines 175-204 on the carried columns
RowAccepted(t, row) ==
    CASE t = "Artists" -> row.artist_name # None
      [] t = "Users" -> row.user_name # None /\ row.total_listens >= 0
      [] OTHER -> TRUE

\* whether SQLite accepts the rows of frame t on top of store d (foreign keys
\* are enforced on this connection)
Accepts(d, t, rows) ==
    LET after == [d EXCEPT ![t] = d[t] \cup rows]
    IN  /\ \A r \in rows : RowAccepted(t, r)
        /\ \A r \in rows : \A e \in d[t] : PrimaryKey(t, e) # PrimaryKey(t, r)
        /\ Orphans(after, t) \subseteq Orphans(d, t)

\* one of lines 224-228: df.to_sql(t, conn, if_exists="append", index=False).
\* to_sql runs its INSERTs in one transaction: committed when all rows are
\* accepted, rolled back and the exception raised otherwise.
BulkInsert ==
    /\ pc = "insert" /\ k <= Len(InsertOrder)
    /\ LET t == InsertOrder[k]
           rows == ToSet(Frame(t))
       IN /\ ops' = Append(ops, t)
          /\ \E io_ok \in BOOLEAN :
              IF io_ok /\ Accepts(db, t, rows)
              THEN /\ db' = [db EXCEPT ![t] = db[t] \cup rows]
                   /\ committed' = committed \cup {t}
                   /\ k' = k + 1 /\ pc' = pc /\ exit' = exit
              ELSE /\ db' = db /\ committed' = committed
                   /\ k' = k /\ pc' = "crashed" /\ exit' = "error"
    /\ UNCHANGED <<num_users, data, session_counter, used, mode, tape, first,
                   fk_issues, out>>

\* lines 231-239: commit, then the three SELECT COUNT(*) prints
Report ==
    /\ pc = "insert" /\ k > Len(InsertOrder)
    /\ out' = out \o << [text |-> "Users:", n |-> Cardinality(db.Users)],
                        [text |-> "Songs:", n |-> Cardinality(db.Songs)],
                        [text |-> "Plays:", n |-> Cardinality(db.Plays)] >>
    /\ pc' = "fk_check"
    /\ UNCHANGED <<num_users, k, data, session_counter, used, mode, tape, first,
                   db, ops, committed, fk_issues, exit>>

\* lines 242-247: PRAGMA foreign_key_check and the print of its result
ForeignKeyCheck ==
    /\ pc = "fk_check"
    /\ fk_issues' = UNION {Orphans(db, t) : t \in ToSet(InsertOrder)}
    /\ out' = Append(out,
           IF fk_issues' # {}
           THEN [text |-> "Foreign key issues:", n |-> Cardinality(fk_issues')]
           ELSE [text |-> "No foreign key issues detected.", n |-> 0])
    /\ pc' = "close"
    /\ UNCHANGED <<num_users, k, data, session_counter, used, mode, tape, first,
                   db, ops, committed, exit>>

\* lines 249-250: conn.close(), the last print; the script ends normally
Finish ==
    /\ pc = "close"
    /\ out' = Append(out, [text |-> "Database generated:", n |-> 0])
    /\ pc' = "done" /\ exit' = "ok"
    /\ UNCHANGED <<num_users, k, data, session_counter, used, mode, tape, first,
                   db, ops, committed, fk_issues>>

Persistence ==
    \/ Connect
    \/ CreateSchema
    \/ BulkInsert
    \/ Report
    \/ ForeignKeyCheck
    \/ Finish

Next == Generation \/ Persistence

Spec == Init /\ [][Next]_vars

\* ---- a second run of the generation with the same seed ----
\* The first run is over (the entity sets are final): a new process starts
\* from the same configuration and the same seed.
Rerun ==
    /\ mode = "record" /\ pc = "connect"
    /\ first' = data
    /\ mode' = "replay"
    /\ pc' = "artists" /\ k' = 1
    /\ artists_df' = <<>> /\ albums_df' = <<>> /\ songs_df' = <<>>
    /\ users_df' = <<>> /\ plays_df' = <<>>
    /\ session_counter' = <<>>
    /\ UNCHANGED <<num_users, used, tape, store>>

InitRerun == InitCommon /\ mode = "record"

NextRerun == Generation \/ Rerun

SpecRerun == InitRerun /\ [][NextRerun]_vars

\* ---- properties ----
Tables == ToSet(InsertOrder)
\* the Aggregator step has run
Aggregated == pc \in {"connect", "schema", "insert", "crashed", "fk_check", "close", "done"}
PlaysOf(u) == {i \in DOMAIN plays_df : plays_df[i].user_id = u}
PlaysOfPair(u, s) == {i \in PlaysOf(u) : plays_df[i].song_id = s}
IsDense(df, col) == Column(df, col) = [i \in 1..Len(df) |-> i]

\* C1: once the Aggregator has run, every User's total_listens is exactly the
\* number of Play records with that user_id, 0 for a user with no Play.
C1_TotalListensIsPlayCount ==
    Aggregated =>
        \A i \in DOMAIN users_df :
            users_df[i].total_listens = Cardinality(PlaysOf(users_df[i].user_id))

C1_Witness ==
    /\ pc = "connect"
    /\ \E i \in DOMAIN users_df : users_df[i].total_listens = 0
    /\ \E i \in DOMAIN users_df : users_df[i].total_listens >= 2

\* C2: after any number of Play generation steps, the session_no values of
\* every (user_id, song_id) pair are exactly 1..k, k the number of Play records
\* of the pair, so no two Play records share (user_id, song_id, session_no).
C2_SessionNumbersDense ==
    /\ \A i \in DOMAIN plays_df :
        LET same == PlaysOfPair(plays_df[i].user_id, plays_df[i].song_id)
        IN  {plays_df[j].session_no : j \in same} = 1..Cardinality(same)
    /\ \A i, j \in DOMAIN plays_df :
        PrimaryKey("Plays", plays_df[i]) = PrimaryKey("Plays", plays_df[j]) => i = j

C2_Witness ==
    \E i, j \in DOMAIN plays_df :
        /\ i < j
        /\ plays_df[i].user_id = plays_df[j].user_id
        /\ plays_df[i].song_id = plays_df[j].song_id
        /\ plays_df[j].session_no = 2

\* C3: every Album names a generated Artist, every Song a generated Album,
\* every Play a generated User and a generated Song.
C3_ReferencesExist ==
    /\ \A i \in DOMAIN albums_df :
        albums_df[i].artist_id \in ToSet(Column(artists_df, "artist_id"))
    /\ \A i \in DOMAIN songs_df :
        songs_df[i].album_id \in ToSet(Column(albums_df, "album_id"))
    /\ \A i \in DOMAIN plays_df :
        /\ plays_df[i].user_id \in ToSet(Column(users_df, "user_id"))
        /\ plays_df[i].song_id \in ToSet(Column(songs_df, "song_id"))

C3_Witness ==
    /\ pc = "aggregate"
    /\ Len(plays_df) = NUM_PLAYS
    /\ Cardinality(ToSet(Column(albums_df, "artist_id"))) > 1
    /\ Cardinality(ToSet(Column(songs_df, "album_id"))) > 1
    /\ Cardinality(ToSet(Column(plays_df, "user_id"))) > 1

\* C4 (as claimed): a User count below the floor fails the run before any
\* record is generated and before the store is touched.
C4_FloorEnforced ==
    num_users < MinUsers =>
        /\ data = <<<<>>, <<>>, <<>>, <<>>, <<>>>>
        /\ ops = <<>>
        /\ exit # "ok"

\* C5 (as claimed): a run whose integrity check reported a foreign-key
\* violation ends in an error, not as a successful run.
C5_ForeignKeyIssuesAreFatal ==
    (pc = "done" /\ fk_issues # {}) => exit = "error"

\* C6 (as claimed): a run that failed in schema creation or in a bulk insert
\* has committed none of its entity sets.
C6_AllOrNothing ==
    exit = "error" => committed = {}

C8_InsertsFollowParents ==
    \A i \in DOMAIN ops :
        ops[i] \in Tables =>
            /\ \E j \in 1..(i - 1) : ops[j] = "schema"
            /\ \A fk \in ForeignKeys :
                fk[1] = ops[i] => \E j \in 1..(i - 1) : ops[j] = fk[3]

C8_Witness ==
    /\ pc = "done"
    /\ committed = Tables
    /\ Len(ops) = 7

\* C9: each entity generator produces exactly its target count of records with
\* keys 1, 2, ..., N in order, and no later step changes a key.
C9_KeysContiguous ==
    /\ IsDense(artists_df, "artist_id") /\ IsDense(albums_df, "album_id")
    /\ IsDense(songs_df, "song_id") /\ IsDense(users_df, "user_id")
    /\ pc # "artists" => Len(artists_df) = NUM_ARTISTS
    /\ pc \notin {"artists", "albums"} => Len(albums_df) = NUM_ALBUMS
    /\ pc \notin {"artists", "albums", "songs"} => Len(songs_df) = NUM_SONGS
    /\ pc \notin {"artists", "albums", "songs", "users"} => Len(users_df) = num_users

C9_Witness ==
    /\ pc = "connect"
    /\ Len(users_df) = MaxUsers
    /\ \E i \in DOMAIN users_df : users_df[i].email = None
    /\ \E i \in DOMAIN users_df : users_df[i].total_listens > 0
    /\ Len(artists_df) = NUM_ARTISTS /\ Len(songs_df) = NUM_SONGS

\* C10: after generation and aggregation there are exactly NUM_PLAYS Play
\* records and the total_listens of all Users sum to NUM_PLAYS.
C10_TotalListensSumToPlays ==
    Aggregated =>
        /\ Len(plays_df) = NUM_PLAYS
        /\ SumSeq(Column(users_df, "total_listens")) = NUM_PLAYS

C10_Witness ==
    /\ pc = "connect"
    /\ Len(users_df) > 1
    /\ \A i \in DOMAIN users_df : users_df[i].total_listens > 0
====
